---- MODULE Spec2Model ----
(***************************************************************************)
(* Devnet iteration detection (scripts/pqdevnet/detect_devnets.py).        *)
(*                                                                         *)
(* Time is counted in whole seconds from the start of the query window;    *)
(* samples lie on the one-minute grid of the range query (step "1m").      *)
(* Client names are numbered in their alphabetical order, so that sorted() *)
(* on names is the order of the numbers.  A DataFrame is the sequence of   *)
(* its rows; one series (instance) per client, as the sample key           *)
(* (client, timestamp) requires.  duration_hours is kept in hundredths of  *)
(* an hour (round(x, 2) has two decimals).                                 *)
(***************************************************************************)
EXTENDS Integers, Sequences, FiniteSets, TLC

VARIABLES
    pc,               \* position of the running call
    args,             \* parsed command line (argparse namespace) and environment
    source,           \* what the Prometheus range query answers: a sequence of series
    df,               \* samples, rows [client, timestamp, slot]
    scan,             \* detect_slot_resets_per_client: the loops' position and cursor
    resets_df,        \* reset events
    sorted_resets,    \* cluster_resets_across_clients: resets_df sorted by timestamp
    row_i,            \* cluster_resets_across_clients: index of the next row of the loop
    current_cluster,  \* cluster_resets_across_clients: the open cluster
    clusters,         \* accepted boundary clusters
    iterations,       \* list of DevnetIteration
    aug_i,            \* augment_clients_from_containers: index of the next iteration
    manifest,         \* the written output file, or NoManifest
    closed,           \* history: every cluster closed so far, accepted or not
    aug_log,          \* history: what the container query answered, per iteration visited
    pre_aug,          \* history: the iterations as detect_devnets returned them
    pre_filter        \* history: the iterations as the augmenter left them

vars == << pc, args, source, df, scan, resets_df, sorted_resets, row_i, current_cluster,
           clusters, iterations, aug_i, manifest, closed, aug_log, pre_aug, pre_filter >>

-----------------------------------------------------------------------------
(* Bounds of the model *)

NumTicks == 3        \* sample instants in the query window
MaxResets == 4       \* reset events handed to the clusterer when called on its own
MaxRows == 3         \* samples of one client handed to the reset detector on its own
MaxClusters == 3     \* clusters handed to the iteration builder when called on its own

(* Program constants *)

StepSeconds == 60            \* step="1m" of the range query
SlackMinutes == 5            \* timedelta(minutes=5)
EndGapSeconds == 1           \* timedelta(seconds=1)
DefaultResetThreshold == 100
DefaultTolerance == 10
DefaultMinClients == 2
DefaultMinDuration == 0

ClientIds == { 1, 2 }        \* the clients reporting in the pipeline runs
NoManifest == [ written |-> FALSE ]
NoCluster == [ start |-> 0, end |-> 0, clients |-> {}, resets |-> <<>> ]

-----------------------------------------------------------------------------
(* Generic helpers *)

Min(S) == CHOOSE x \in S : \A y \in S : x <= y
Max(S) == CHOOSE x \in S : \A y \in S : x >= y
Range(s) == { s[i] : i \in 1..Len(s) }

RECURSIVE SetToSortedSeq(_)
SetToSortedSeq(S) ==
    IF S = {} THEN <<>> ELSE << Min(S) >> \o SetToSortedSeq(S \ {Min(S)})

\* sorted(<set of names>)
sorted(S) == SetToSortedSeq(S)

\* Series.unique(): the distinct values in order of first appearance
unique(s) ==
    LET first == SetToSortedSeq({ Min({ i \in 1..Len(s) : s[i] = v }) : v \in Range(s) })
    IN [ k \in 1..Len(first) |-> s[first[k]] ]

ClientColumn(rows) == [ i \in 1..Len(rows) |-> rows[i].client ]

\* DataFrame.sort_values("timestamp"); ties keep their order (the frames here are
\* far below the size where numpy's sort stops being an insertion sort)
SortByTimestamp(s) ==
    LET numbered == [ i \in 1..Len(s) |-> << s[i], i >> ]
        ordered  == SortSeq(numbered,
                            LAMBDA a, b : \/ a[1].timestamp < b[1].timestamp
                                          \/ a[1].timestamp = b[1].timestamp /\ a[2] < b[2])
    IN [ p \in 1..Len(s) |-> ordered[p][1] ]

\* SortByClientTimestamp ordering the rows by timestamp only
SortByTimestampOnly(rows) == SortByTimestamp(rows)

\* df.sort_values(["client", "timestamp"])
SortByClientTimestamp(rows) ==
    LET cs == SetToSortedSeq(Range(ClientColumn(rows)))
        RECURSIVE Cat(_)
        Cat(k) == IF k > Len(cs) THEN <<>>
                  ELSE SortByTimestamp(SelectSeq(rows, LAMBDA r : r.client = cs[k]))
                       \o Cat(k + 1)
    IN Cat(1)

-----------------------------------------------------------------------------
(* Conversions *)

\* datetime.isoformat(): the calendar fields of the instant, to the second
isoformat(t) ==
    [ day  |-> t \div 86400,
      hour |-> (t % 86400) \div 3600,
      min  |-> (t % 3600) \div 60,
      sec  |-> t % 60 ]

\* datetime.fromisoformat()
fromisoformat(s) == s.day * 86400 + s.hour * 3600 + s.min * 60 + s.sec

\* devnet_id_from_timestamp keeping the date and the hour only
devnet_id_from_hour(dt) ==
    [ day  |-> dt \div 86400,
      hour |-> (dt % 86400) \div 3600,
      min  |-> 0 ]

\* devnet_id_from_timestamp: strftime('%Y%m%dT%H%MZ') keeps date, hour and minute
devnet_id_from_timestamp(dt) ==
    [ day  |-> dt \div 86400,
      hour |-> (dt % 86400) \div 3600,
      min  |-> (dt % 3600) \div 60 ]

\* round(seconds / 3600, 2), in hundredths of an hour.  A tie needs
\* seconds = 36 n + 18, which no span of k minutes or k minutes - 1 second is;
\* at the one tie a boundary off the sample grid brings about here, 342 seconds,
\* round() goes up as well (the double 342/3600 lies above 0.095).
RoundHours(seconds) == (seconds + 18) \div 36

minutes(m) == 60 * m   \* timedelta(minutes=m), in seconds

-----------------------------------------------------------------------------
(* fetch_head_slot_history *)

\* rows appended series by series, value by value (lines 84-96)
SeriesRows(series) ==
    [ k \in 1..Len(series.values) |->
        [ client    |-> series.job,
          timestamp |-> series.values[k][1],
          slot      |-> series.values[k][2] ] ]

RECURSIVE ResultRows(_, _)
ResultRows(result, j) ==
    IF j > Len(result) THEN <<>>
    ELSE SeriesRows(result[j]) \o ResultRows(result, j + 1)

fetch_head_slot_history(result) ==
    LET rows == ResultRows(result, 1)
    IN IF rows # <<>> THEN SortByClientTimestamp(rows) ELSE rows

-----------------------------------------------------------------------------
(* detect_slot_resets_per_client *)

NoCursor == [ has |-> FALSE, slot |-> 0, timestamp |-> 0 ]

\* IsReset flagging a decrease of exactly the threshold too
IsResetInclusive(slot, prev_slot, reset_threshold) == slot <= prev_slot - reset_threshold

\* the comparison of line 124
IsReset(slot, prev_slot, reset_threshold) == slot < prev_slot - reset_threshold

\* ScanRow leaving the cursor on the sample before a reset when one fires
ScanRowRebased(acc, row, reset_threshold) ==
    IF acc.cursor.has /\ IsReset(row.slot, acc.cursor.slot, reset_threshold)
    THEN [ resets |->
             Append(acc.resets,
                    [ client         |-> row.client,
                      timestamp      |-> row.timestamp,
                      new_slot       |-> row.slot,
                      prev_slot      |-> acc.cursor.slot,
                      prev_timestamp |-> acc.cursor.timestamp ]),
           cursor |-> acc.cursor ]
    ELSE [ resets |-> acc.resets,
           cursor |-> [ has |-> TRUE, slot |-> row.slot, timestamp |-> row.timestamp ] ]

\* one turn of the loop over a client's rows (lines 121-133):
\* the resets so far and the cursor after the row
ScanRow(acc, row, reset_threshold) ==
    [ resets |->
        IF acc.cursor.has /\ IsReset(row.slot, acc.cursor.slot, reset_threshold)
        THEN Append(acc.resets,
                    [ client         |-> row.client,
                      timestamp      |-> row.timestamp,
                      new_slot       |-> row.slot,
                      prev_slot      |-> acc.cursor.slot,
                      prev_timestamp |-> acc.cursor.timestamp ])
        ELSE acc.resets,
      cursor |-> [ has |-> TRUE, slot |-> row.slot, timestamp |-> row.timestamp ] ]

\* ScanStart carrying the cursor over from the last sample of the client before
ScanStartCarried(frame, clients, c) ==
    LET before == IF c > 1
                  THEN SortByTimestamp(SelectSeq(frame, LAMBDA r : r.client = clients[c - 1]))
                  ELSE <<>>
    IN [ clients   |-> clients,
         c         |-> c,
         client_df |-> SortByTimestamp(SelectSeq(frame, LAMBDA r : r.client = clients[c])),
         r         |-> 1,
         cursor    |-> IF before = <<>> THEN [ has |-> FALSE, slot |-> 0, timestamp |-> 0 ]
                       ELSE [ has       |-> TRUE,
                              slot      |-> before[Len(before)].slot,
                              timestamp |-> before[Len(before)].timestamp ] ]

\* the loops of lines 116-121 at the first row of client number c
ScanStart(frame, clients, c) ==
    [ clients   |-> clients,
      c         |-> c,
      client_df |-> SortByTimestamp(SelectSeq(frame, LAMBDA r : r.client = clients[c])),
      r         |-> 1,
      cursor    |-> NoCursor ]

NoScan == [ clients |-> <<>>, c |-> 0, client_df |-> <<>>, r |-> 0, cursor |-> NoCursor ]

-----------------------------------------------------------------------------
(* cluster_resets_across_clients *)

\* lines 156-161 and 174-179
NewCluster(row) ==
    [ start   |-> row.timestamp,
      end     |-> row.timestamp,
      clients |-> { row.client },
      resets  |-> << row >> ]

\* WithinTolerance measuring from the start of the cluster instead of its end
WithinToleranceOfStart(row, cluster, tolerance_minutes) ==
    row.timestamp - cluster.start <= minutes(tolerance_minutes)

\* WithinTolerance leaving out a gap of exactly the tolerance
WithinToleranceStrict(row, cluster, tolerance_minutes) ==
    row.timestamp - cluster.end < minutes(tolerance_minutes)

\* line 165
WithinTolerance(row, cluster, tolerance_minutes) ==
    row.timestamp - cluster.end <= minutes(tolerance_minutes)

\* FoldIntoCluster not adding the reset's client
FoldIntoClusterSameClients(cluster, row) ==
    [ start   |-> cluster.start,
      end     |-> IF cluster.end >= row.timestamp THEN cluster.end ELSE row.timestamp,
      clients |-> cluster.clients,
      resets  |-> Append(cluster.resets, row) ]

\* lines 166-168
FoldIntoCluster(cluster, row) ==
    [ start   |-> cluster.start,
      end     |-> IF cluster.end >= row.timestamp THEN cluster.end ELSE row.timestamp,
      clients |-> cluster.clients \cup { row.client },
      resets  |-> Append(cluster.resets, row) ]

\* EnoughClients counting the resets of the cluster instead of its clients
EnoughClientsByResets(cluster, min_clients) == Len(cluster.resets) >= min_clients

\* lines 171 and 182
EnoughClients(cluster, min_clients) == Cardinality(cluster.clients) >= min_clients

\* CloseCluster accepting every cluster
CloseClusterAlways(done, cluster, min_clients) == Append(done, cluster)

\* lines 171-172 and 182-183
CloseCluster(done, cluster, min_clients) ==
    IF EnoughClients(cluster, min_clients) THEN Append(done, cluster) ELSE done

-----------------------------------------------------------------------------
(* build_devnet_iterations *)

TimestampsOf(frame) == { frame[i].timestamp : i \in 1..Len(frame) }
SlotsOf(frame) == { frame[i].slot : i \in 1..Len(frame) }

\* get_period_stats leaving out the samples at the end instant
get_period_stats_open_end(frame, start, end) ==
    LET period_df == SelectSeq(frame, LAMBDA r : r.timestamp >= start /\ r.timestamp < end)
    IN IF period_df = <<>>
       THEN [ start_slot |-> 0, end_slot |-> 0, clients |-> <<>> ]
       ELSE [ start_slot |-> Min(SlotsOf(period_df)),
              end_slot   |-> Max(SlotsOf(period_df)),
              clients    |-> unique(ClientColumn(period_df)) ]

\* lines 209-217
get_period_stats(frame, start, end) ==
    LET period_df == SelectSeq(frame, LAMBDA r : r.timestamp >= start /\ r.timestamp <= end)
    IN IF period_df = <<>>
       THEN [ start_slot |-> 0, end_slot |-> 0, clients |-> <<>> ]
       ELSE [ start_slot |-> Min(SlotsOf(period_df)),
              end_slot   |-> Max(SlotsOf(period_df)),
              clients    |-> unique(ClientColumn(period_df)) ]

\* Stable insertion of a cluster into a sequence sorted by start
RECURSIVE InsertByStart(_, _)
InsertByStart(x, s) ==
    IF s = <<>> THEN << x >>
    ELSE IF s[Len(s)].start <= x.start THEN Append(s, x)
    ELSE Append(InsertByStart(x, SubSeq(s, 1, Len(s) - 1)), s[Len(s)])

RECURSIVE SortByStartFrom(_, _, _)
SortByStartFrom(s, i, acc) ==
    IF i > Len(s) THEN acc ELSE SortByStartFrom(s, i + 1, InsertByStart(s[i], acc))

\* SortByStart leaving the clusters in the order they were passed
SortByStartAsPassed(s) == s

\* sorted(clusters, key=lambda c: c["start"])
SortByStart(s) == SortByStartFrom(s, 1, <<>>)

PreExistingNote == [ text |-> "Pre-existing devnet (data starts before first detected reset)", n |-> 0 ]
DetectedNote(n) == [ text |-> "Detected from {n} client resets", n |-> n ]
SingleIterationNote == [ text |-> "Single iteration (no multi-client resets detected)", n |-> 0 ]

\* BeyondSlack counting a first cluster exactly at the slack as beyond it
BeyondSlackInclusive(data_start, first_cluster_start) ==
    data_start <= first_cluster_start - minutes(SlackMinutes)

\* line 222
BeyondSlack(data_start, first_cluster_start) ==
    data_start < first_cluster_start - minutes(SlackMinutes)

\* HasClients keeping a period without samples
HasClientsOrNone(st) == st.clients = st.clients

\* lines 226 and 254: "if clients" on what get_period_stats returned
HasClients(st) == st.clients # <<>>

\* lines 219-240: the iteration before the first cluster
LeadingIteration(frame, cs, data_start) ==
    IF cs = <<>> THEN <<>>
    ELSE LET first_cluster_start == cs[1].start
         IN IF BeyondSlack(data_start, first_cluster_start)
            THEN LET st == get_period_stats(frame, data_start,
                                            first_cluster_start - EndGapSeconds)
                 IN IF HasClients(st)
                    THEN << [ id             |-> devnet_id_from_timestamp(data_start),
                              start_time     |-> isoformat(data_start),
                              end_time       |-> isoformat(first_cluster_start - EndGapSeconds),
                              duration_hours |-> RoundHours(first_cluster_start - data_start),
                              start_slot     |-> st.start_slot,
                              end_slot       |-> st.end_slot,
                              clients        |-> st.clients,
                              notes          |-> PreExistingNote ] >>
                    ELSE <<>>
            ELSE <<>>

\* IterationEnd ending an iteration at the very start of the next cluster
IterationEndAtNextStart(cs, i, data_end) ==
    IF i + 1 <= Len(cs) THEN cs[i + 1].start ELSE data_end

\* lines 244-250: where the iteration begun by cluster i ends
IterationEnd(cs, i, data_end) ==
    IF i + 1 <= Len(cs) THEN cs[i + 1].start - EndGapSeconds ELSE data_end

\* lines 243-270: the iteration begun by cluster i, or nothing
ClusterIteration(frame, cs, i, data_end) ==
    LET iteration_start == cs[i].start
        iteration_end   == IterationEnd(cs, i, data_end)
        st == get_period_stats(frame, iteration_start, iteration_end)
    IN IF ~HasClients(st) THEN <<>>
       ELSE << [ id             |-> devnet_id_from_timestamp(iteration_start),
                 start_time     |-> isoformat(iteration_start),
                 end_time       |-> isoformat(iteration_end),
                 duration_hours |-> RoundHours(iteration_end - iteration_start),
                 start_slot     |-> st.start_slot,
                 end_slot       |-> st.end_slot,
                 clients        |-> st.clients,
                 notes          |-> DetectedNote(Cardinality(cs[i].clients)) ] >>

build_devnet_iterations(frame, cls) ==
    IF frame = <<>> THEN <<>>
    ELSE LET data_start == Min(TimestampsOf(frame))
             data_end   == Max(TimestampsOf(frame))
             cs         == SortByStart(cls)
             RECURSIVE PerCluster(_)
             PerCluster(i) ==
                 IF i > Len(cs) THEN <<>>
                 ELSE ClusterIteration(frame, cs, i, data_end) \o PerCluster(i + 1)
         IN LeadingIteration(frame, cs, data_start) \o PerCluster(1)

\* SingleIteration taking the range from the first and the last row of the frame
SingleIterationFirstLast(frame) ==
    LET lo == frame[1]
        hi == frame[Len(frame)]
    IN << [ id             |-> devnet_id_from_timestamp(lo.timestamp),
            start_time     |-> isoformat(lo.timestamp),
            end_time       |-> isoformat(hi.timestamp),
            duration_hours |-> RoundHours(hi.timestamp - lo.timestamp),
            start_slot     |-> lo.slot,
            end_slot       |-> hi.slot,
            clients        |-> unique(ClientColumn(frame)),
            notes          |-> SingleIterationNote ] >>

\* detect_devnets, lines 317-332: the whole range as one iteration
SingleIteration(frame) ==
    LET lo == Min(TimestampsOf(frame))
        hi == Max(TimestampsOf(frame))
    IN << [ id             |-> devnet_id_from_timestamp(lo),
            start_time     |-> isoformat(lo),
            end_time       |-> isoformat(hi),
            duration_hours |-> RoundHours(hi - lo),
            start_slot     |-> Min(SlotsOf(frame)),
            end_slot       |-> Max(SlotsOf(frame)),
            clients        |-> unique(ClientColumn(frame)),
            notes          |-> SingleIterationNote ] >>

-----------------------------------------------------------------------------
(* fetch_container_clients, augment_clients_from_containers, the duration filter *)

\* A container name: the client it is named after (stem, 0 for infrastructure),
\* whether the name holds an underscore, and whether it is one of EXCLUDED_CONTAINERS
Container(stem, underscore, excluded) ==
    [ stem |-> stem, underscore |-> underscore, excluded |-> excluded ]

\* lines 360-366
fetch_container_clients(containers) ==
    { c.stem : c \in { k \in containers : ~k.excluded /\ k.underscore } }

\* AugmentedClients replacing the list by the container clients instead of merging
AugmentedClientsReplace(clients, container_clients) ==
    LET merged == sorted(container_clients)
    IN IF Len(merged) > Len(clients) THEN merged ELSE clients

\* lines 379-383
AugmentedClients(clients, container_clients) ==
    LET merged == sorted(Range(clients) \cup container_clients)
    IN IF Len(merged) > Len(clients) THEN merged ELSE clients

\* MeetsMinDuration dropping the iterations of exactly the minimum duration
MeetsMinDurationStrict(d, min_duration) == 60 * d.duration_hours > 100 * min_duration

\* line 459: d.duration_hours >= args.min_duration / 60.0, with duration_hours
\* in hundredths of an hour: h/100 >= m/60  <=>  60 h >= 100 m
MeetsMinDuration(d, min_duration) == 60 * d.duration_hours >= 100 * min_duration

\* lines 456-459
DurationFilter(its, min_duration) ==
    IF min_duration > 0
    THEN SelectSeq(its, LAMBDA d : MeetsMinDuration(d, min_duration))
    ELSE its

-----------------------------------------------------------------------------
(* detect_devnets as a function of what the range query answers *)

\* lines 114-135: every client's rows in turn
detect_slot_resets_per_client(frame, reset_threshold) ==
    LET clients == unique(ClientColumn(frame))
        RECURSIVE Rows(_, _, _)
        Rows(client_df, r, acc) ==
            IF r > Len(client_df) THEN acc.resets
            ELSE Rows(client_df, r + 1, ScanRow(acc, client_df[r], reset_threshold))
        RECURSIVE PerClient(_, _)
        PerClient(c, resets) ==
            IF c > Len(clients) THEN resets
            ELSE PerClient(c + 1,
                           Rows(ScanStart(frame, clients, c).client_df, 1,
                                [ resets |-> resets, cursor |-> NoCursor ]))
    IN PerClient(1, <<>>)

\* lines 149-185
cluster_resets_across_clients(resets, tolerance_minutes, min_clients) ==
    IF resets = <<>> THEN <<>>
    ELSE LET rows == SortByTimestamp(resets)
             RECURSIVE Loop(_, _, _)
             Loop(i, cluster, done) ==
                 IF i > Len(rows) THEN CloseCluster(done, cluster, min_clients)
                 ELSE IF WithinTolerance(rows[i], cluster, tolerance_minutes)
                 THEN Loop(i + 1, FoldIntoCluster(cluster, rows[i]), done)
                 ELSE Loop(i + 1, NewCluster(rows[i]),
                           CloseCluster(done, cluster, min_clients))
         IN Loop(2, NewCluster(rows[1]), <<>>)

\* lines 291-337
detect_devnets(result, reset_threshold, tolerance_minutes, min_clients) ==
    LET frame == fetch_head_slot_history(result)
    IN IF frame = <<>> THEN <<>>
       ELSE LET found == cluster_resets_across_clients(
                             detect_slot_resets_per_client(frame, reset_threshold),
                             tolerance_minutes, min_clients)
            IN IF found = <<>> THEN SingleIteration(frame)
               ELSE build_devnet_iterations(frame, found)

-----------------------------------------------------------------------------
(* Inputs *)

GapMinutes == { 1, 6 }            \* minutes between two populated sample instants
SlotValues == { 0, 200 }          \* head slots reported in the pipeline runs
ResetThresholds == { DefaultResetThreshold }
Tolerances == { 1, DefaultTolerance }
MinClientsValues == { 1, DefaultMinClients }
MinDurations == { DefaultMinDuration, 6 }

\* the sample instants: the first at 0, then one of GapMinutes apart
RECURSIVE TickAt(_, _)
TickAt(gaps, i) == IF i = 1 THEN 0 ELSE TickAt(gaps, i - 1) + StepSeconds * gaps[i - 1]
TickTimes == { [ i \in 1..NumTicks |-> TickAt(gaps, i) ] : gaps \in [ 1..(NumTicks - 1) -> GapMinutes ] }

\* what one client reports: a slot at each instant from the one it joins at
\* (a client that joins after the last instant reports nothing)
ClientSeries ==
    [ joins : 1..(NumTicks + 1), slots : [ 1..NumTicks -> SlotValues ] ]

\* the values of one series, in time order
SeriesValues(ticks, f) ==
    [ k \in 1..(Len(ticks) + 1 - f.joins) |->
        << ticks[f.joins + k - 1], f.slots[f.joins + k - 1] >> ]

\* the answer of the range query: the series that hold a value, last client first
RECURSIVE QueryResult(_, _, _)
QueryResult(ticks, fs, c) ==
    IF c < 1 THEN <<>>
    ELSE (IF fs[c].joins > Len(ticks) THEN <<>>
          ELSE << [ job |-> c, values |-> SeriesValues(ticks, fs[c]) ] >>)
         \o QueryResult(ticks, fs, c - 1)

Sources ==
    { QueryResult(ticks, fs, Max(ClientIds)) :
        ticks \in TickTimes, fs \in [ ClientIds -> ClientSeries ] }

ArgSets ==
    [ prometheus_url  : BOOLEAN,
      reset_threshold : ResetThresholds,
      tolerance       : Tolerances,
      min_clients     : MinClientsValues,
      min_duration    : MinDurations ]

\* the answers of the container query: none; "zeam_0" and "cadvisor";
\* "aaa_0", "zeam_0", "zzz_0", "standalone" and "node_exporter"
ContainerAnswers ==
    { {},
      { Container(1, TRUE, FALSE), Container(0, FALSE, TRUE) },
      { Container(0, TRUE, FALSE), Container(1, TRUE, FALSE), Container(9, TRUE, FALSE),
        Container(8, FALSE, FALSE), Container(7, TRUE, TRUE) } }

-----------------------------------------------------------------------------
(* main *)

Idle ==
    /\ scan = NoScan
    /\ sorted_resets = <<>>
    /\ row_i = 0
    /\ current_cluster = NoCluster
    /\ clusters = <<>>
    /\ iterations = <<>>
    /\ aug_i = 0
    /\ manifest = NoManifest
    /\ closed = <<>>
    /\ aug_log = <<>>
    /\ pre_aug = <<>>
    /\ pre_filter = <<>>

Init ==
    /\ pc = "main"
    /\ args \in ArgSets
    /\ source \in Sources
    /\ df = <<>>
    /\ resets_df = <<>>
    /\ Idle

\* GetPrometheusClient going on without a URL
GetPrometheusClientNoCheck ==
    /\ pc = "main"
    /\ pc' = "fetch"
    /\ UNCHANGED << scan, args, source, df, resets_df, sorted_resets, row_i, current_cluster,
                    clusters, iterations, aug_i, manifest, closed, aug_log, pre_aug,
                    pre_filter >>

\* get_prometheus_client, lines 62-67, called at line 435
GetPrometheusClient ==
    /\ pc = "main"
    /\ pc' = IF args.prometheus_url THEN "fetch" ELSE "fatal"
    /\ UNCHANGED << scan, args, source, df, resets_df, sorted_resets, row_i, current_cluster,
                    clusters, iterations, aug_i, manifest, closed, aug_log, pre_aug,
                    pre_filter >>

\* FetchSamples without the early return on an empty frame
FetchSamplesNoEmptyReturn ==
    /\ pc = "fetch"
    /\ df' = fetch_head_slot_history(source)
    /\ pc' = "detect"
    /\ UNCHANGED << scan, args, source, resets_df, sorted_resets, row_i, current_cluster,
                    clusters, iterations, aug_i, manifest, closed, aug_log, pre_aug,
                    pre_filter >>

\* detect_devnets, lines 291-296
FetchSamples ==
    /\ pc = "fetch"
    /\ df' = fetch_head_slot_history(source)
    /\ pc' = IF df' = <<>> THEN "returned" ELSE "detect"
    /\ UNCHANGED << scan, args, source, resets_df, sorted_resets, row_i, current_cluster,
                    clusters, iterations, aug_i, manifest, closed, aug_log, pre_aug,
                    pre_filter >>

\* detect_slot_resets_per_client, lines 114-120, called at line 302
DetectBegin ==
    /\ pc = "detect"
    /\ resets_df' = <<>>
    /\ scan' = ScanStart(df, unique(ClientColumn(df)), 1)
    /\ pc' = "detect_loop"
    /\ UNCHANGED << args, source, df, sorted_resets, row_i, current_cluster,
                    clusters, iterations, aug_i, manifest, closed, aug_log, pre_aug,
                    pre_filter >>

\* detect_slot_resets_per_client, lines 121-135: one row, then the next row, the
\* next client or the return
DetectRow ==
    /\ pc = "detect_loop"
    /\ LET acc == ScanRow([ resets |-> resets_df, cursor |-> scan.cursor ],
                          scan.client_df[scan.r], args.reset_threshold)
       IN /\ resets_df' = acc.resets
          /\ IF scan.r < Len(scan.client_df)
             THEN /\ scan' = [ scan EXCEPT !.r = scan.r + 1, !.cursor = acc.cursor ]
                  /\ UNCHANGED pc
             ELSE IF scan.c < Len(scan.clients)
             THEN /\ scan' = ScanStart(df, scan.clients, scan.c + 1)
                  /\ UNCHANGED pc
             ELSE /\ scan' = [ scan EXCEPT !.r = scan.r + 1, !.cursor = acc.cursor ]
                  /\ pc' = "cluster"
    /\ UNCHANGED << args, source, df, sorted_resets, row_i, current_cluster,
                    clusters, iterations, aug_i, manifest, closed, aug_log, pre_aug,
                    pre_filter >>

\* cluster_resets_across_clients, lines 149-161
ClusterBegin ==
    /\ pc = "cluster"
    /\ IF resets_df = <<>>
       THEN /\ clusters' = <<>>
            /\ pc' = "clustered"
            /\ UNCHANGED << sorted_resets, row_i, current_cluster >>
       ELSE /\ sorted_resets' = SortByTimestamp(resets_df)
            /\ current_cluster' = NewCluster(sorted_resets'[1])
            /\ clusters' = <<>>
            /\ row_i' = 2
            /\ pc' = "cluster_loop"
    /\ UNCHANGED << scan, args, source, df, resets_df, iterations, aug_i, manifest, closed,
                    aug_log, pre_aug, pre_filter >>

\* ClusterRow handing the resets of a discarded cluster on to the next cluster
ClusterRowKeepDiscarded ==
    /\ pc = "cluster_loop"
    /\ row_i <= Len(sorted_resets)
    /\ LET row == sorted_resets[row_i]
       IN IF WithinTolerance(row, current_cluster, args.tolerance)
          THEN /\ current_cluster' = FoldIntoCluster(current_cluster, row)
               /\ UNCHANGED << clusters, closed >>
          ELSE /\ clusters' = CloseCluster(clusters, current_cluster, args.min_clients)
               /\ closed' = Append(closed, current_cluster)
               /\ current_cluster' =
                      IF EnoughClients(current_cluster, args.min_clients)
                      THEN NewCluster(row)
                      ELSE FoldIntoCluster(current_cluster, row)
    /\ row_i' = row_i + 1
    /\ UNCHANGED << scan, pc, args, source, df, resets_df, sorted_resets, iterations, aug_i,
                    manifest, aug_log, pre_aug, pre_filter >>

\* cluster_resets_across_clients, lines 163-179: one row
ClusterRow ==
    /\ pc = "cluster_loop"
    /\ row_i <= Len(sorted_resets)
    /\ LET row == sorted_resets[row_i]
       IN IF WithinTolerance(row, current_cluster, args.tolerance)
          THEN /\ current_cluster' = FoldIntoCluster(current_cluster, row)
               /\ UNCHANGED << clusters, closed >>
          ELSE /\ clusters' = CloseCluster(clusters, current_cluster, args.min_clients)
               /\ closed' = Append(closed, current_cluster)
               /\ current_cluster' = NewCluster(row)
    /\ row_i' = row_i + 1
    /\ UNCHANGED << scan, pc, args, source, df, resets_df, sorted_resets, iterations, aug_i,
                    manifest, aug_log, pre_aug, pre_filter >>

\* cluster_resets_across_clients, lines 181-185
ClusterEnd ==
    /\ pc = "cluster_loop"
    /\ row_i > Len(sorted_resets)
    /\ clusters' = CloseCluster(clusters, current_cluster, args.min_clients)
    /\ closed' = Append(closed, current_cluster)
    /\ pc' = "clustered"
    /\ UNCHANGED << scan, args, source, df, resets_df, sorted_resets, row_i, current_cluster,
                    iterations, aug_i, manifest, aug_log, pre_aug, pre_filter >>

\* detect_devnets, lines 314-332
SingleIterationFallback ==
    /\ pc = "clustered"
    /\ clusters = <<>>
    /\ iterations' = SingleIteration(df)
    /\ pc' = "returned"
    /\ UNCHANGED << scan, args, source, df, resets_df, sorted_resets, row_i, current_cluster,
                    clusters, aug_i, manifest, closed, aug_log, pre_aug, pre_filter >>

\* detect_devnets, lines 334-337
BuildIterations ==
    /\ pc = "clustered"
    /\ clusters # <<>>
    /\ iterations' = build_devnet_iterations(df, clusters)
    /\ pc' = "returned"
    /\ UNCHANGED << scan, args, source, df, resets_df, sorted_resets, row_i, current_cluster,
                    clusters, aug_i, manifest, closed, aug_log, pre_aug, pre_filter >>

\* main, lines 447-453
AfterDetect ==
    /\ pc = "returned"
    /\ IF iterations = <<>>
       THEN pc' = "done" /\ UNCHANGED << aug_i, pre_aug >>
       ELSE pc' = "augment" /\ aug_i' = 1 /\ pre_aug' = iterations
    /\ UNCHANGED << scan, args, source, df, resets_df, sorted_resets, row_i, current_cluster,
                    clusters, iterations, manifest, closed, aug_log, pre_filter >>

\* augment_clients_from_containers, lines 374-383: one iteration, the container
\* query answering
AugmentIteration ==
    /\ pc = "augment"
    /\ aug_i <= Len(iterations)
    /\ \E answer \in ContainerAnswers :
         LET container_clients == fetch_container_clients(answer)
         IN /\ iterations' =
                 [ iterations EXCEPT ![aug_i].clients =
                       AugmentedClients(iterations[aug_i].clients, container_clients) ]
            /\ aug_log' = Append(aug_log, [ ok |-> TRUE, clients |-> container_clients ])
    /\ aug_i' = aug_i + 1
    /\ UNCHANGED << scan, pc, args, source, df, resets_df, sorted_resets, row_i, current_cluster,
                    clusters, manifest, closed, pre_aug, pre_filter >>

\* augment_clients_from_containers, line 377: the container query raising; nothing
\* between it and the interpreter's top level catches the exception
AugmentQueryRaises ==
    /\ pc = "augment"
    /\ aug_i <= Len(iterations)
    /\ aug_log' = Append(aug_log, [ ok |-> FALSE, clients |-> {} ])
    /\ pc' = "crashed"
    /\ UNCHANGED << scan, args, source, df, resets_df, sorted_resets, row_i, current_cluster,
                    clusters, iterations, aug_i, manifest, closed, pre_aug, pre_filter >>

\* FilterShort going on to the write when no iteration is left
FilterShortWriteEmpty ==
    /\ pc = "augment"
    /\ aug_i > Len(iterations)
    /\ pre_filter' = iterations
    /\ iterations' = DurationFilter(iterations, args.min_duration)
    /\ pc' = "write"
    /\ UNCHANGED << scan, args, source, df, resets_df, sorted_resets, row_i, current_cluster,
                    clusters, aug_i, manifest, closed, aug_log, pre_aug >>

\* FilterShort not waiting for the augmenter to return
FilterShortEarly ==
    /\ pc = "augment"
    /\ pre_filter' = iterations
    /\ iterations' = DurationFilter(iterations, args.min_duration)
    /\ pc' = IF iterations' = <<>> THEN "done" ELSE "write"
    /\ UNCHANGED << scan, args, source, df, resets_df, sorted_resets, row_i, current_cluster,
                    clusters, aug_i, manifest, closed, aug_log, pre_aug >>

\* main, lines 455-466
FilterShort ==
    /\ pc = "augment"
    /\ aug_i > Len(iterations)
    /\ pre_filter' = iterations
    /\ iterations' = DurationFilter(iterations, args.min_duration)
    /\ pc' = IF iterations' = <<>> THEN "done" ELSE "write"
    /\ UNCHANGED << scan, args, source, df, resets_df, sorted_resets, row_i, current_cluster,
                    clusters, aug_i, manifest, closed, aug_log, pre_aug >>

\* main, lines 483-502
WriteManifest ==
    /\ pc = "write"
    /\ manifest' =
         [ written |-> TRUE,
           detection_params |->
             [ reset_threshold      |-> args.reset_threshold,
               tolerance_minutes    |-> args.tolerance,
               min_clients          |-> args.min_clients,
               min_duration_minutes |-> args.min_duration ],
           devnets |-> iterations ]
    /\ pc' = "done"
    /\ UNCHANGED << scan, args, source, df, resets_df, sorted_resets, row_i, current_cluster,
                    clusters, iterations, aug_i, closed, aug_log, pre_aug, pre_filter >>

Next ==
    \/ GetPrometheusClient
    \/ FetchSamples
    \/ DetectBegin
    \/ DetectRow
    \/ ClusterBegin
    \/ ClusterRow
    \/ ClusterEnd
    \/ SingleIterationFallback
    \/ BuildIterations
    \/ AfterDetect
    \/ AugmentIteration
    \/ AugmentQueryRaises
    \/ FilterShort
    \/ WriteManifest

Spec == Init /\ [][Next]_vars

-----------------------------------------------------------------------------
(* Properties of the pipeline *)

StartOf(it) == fromisoformat(it.start_time)
EndOf(it) == fromisoformat(it.end_time)
ClientsIn(frame) == { frame[i].client : i \in 1..Len(frame) }
NoDuplicates(s) == \A i, j \in 1..Len(s) : s[i] = s[j] => i = j

\* C1: for a non-empty sample set, the intervals of the iterations detect_devnets
\* returns cover exactly [min(timestamp), max(timestamp)]: the first starts at the
\* minimum, the last ends at the maximum, and each next one starts one second (the
\* time unit) after the one before it ends, so there is neither a gap nor an overlap.
C1_IntervalsCoverDataRange ==
    (pc = "returned" /\ df # <<>>) =>
        /\ iterations # <<>>
        /\ StartOf(iterations[1]) = Min(TimestampsOf(df))
        /\ EndOf(iterations[Len(iterations)]) = Max(TimestampsOf(df))
        /\ \A i \in 1..Len(iterations) : StartOf(iterations[i]) <= EndOf(iterations[i])
        /\ \A i \in 1..(Len(iterations) - 1) :
               EndOf(iterations[i]) + EndGapSeconds = StartOf(iterations[i + 1])

\* C5: for a non-empty sample set with no reset, or with no cluster reaching
\* min_clients distinct clients, detect_devnets returns exactly one iteration: from
\* the minimum to the maximum timestamp, with the minimum and maximum slot of all
\* samples, all distinct clients (each once), and a non-empty fallback note.
C5_SingleIterationFallback ==
    (pc = "returned" /\ df # <<>> /\ (resets_df = <<>> \/ clusters = <<>>)) =>
        /\ Len(iterations) = 1
        /\ StartOf(iterations[1]) = Min(TimestampsOf(df))
        /\ EndOf(iterations[1]) = Max(TimestampsOf(df))
        /\ iterations[1].start_slot = Min(SlotsOf(df))
        /\ iterations[1].end_slot = Max(SlotsOf(df))
        /\ Range(iterations[1].clients) = ClientsIn(df)
        /\ NoDuplicates(iterations[1].clients)
        /\ iterations[1].notes = SingleIterationNote
        /\ iterations[1].notes.text # ""

\* C5's case: resets were found, none of their clusters reached min_clients, and
\* the one iteration spans several samples of several clients
C5_Witness ==
    /\ pc = "returned"
    /\ resets_df # <<>>
    /\ clusters = <<>>
    /\ Len(iterations) = 1
    /\ Cardinality(ClientsIn(df)) > 1
    /\ iterations[1].start_slot < iterations[1].end_slot
    /\ StartOf(iterations[1]) < EndOf(iterations[1])

\* C7: while the augmenter runs, every iteration's client set contains the client
\* set detect_devnets gave it, and every other field is as detect_devnets left it.
C7_AugmentationAdditive ==
    pc \in { "augment", "crashed" } =>
        /\ Len(iterations) = Len(pre_aug)
        /\ \A i \in 1..Len(iterations) :
             /\ Range(pre_aug[i].clients) \subseteq Range(iterations[i].clients)
             /\ [ iterations[i] EXCEPT !.clients = pre_aug[i].clients ] = pre_aug[i]

\* C7's case: the container query named a client the slot metric had not, for an
\* iteration that already had two clients
C7_Witness ==
    /\ pc = "augment"
    /\ aug_i > 1
    /\ Len(pre_aug[1].clients) > 1
    /\ Range(pre_aug[1].clients) # Range(iterations[1].clients)
    /\ aug_log[1].clients \cap Range(pre_aug[1].clients) # {}

\* duration_hours * 60 < X, with duration_hours in hundredths of an hour
ShorterThan(d, x) == d.duration_hours * 60 < 100 * x

\* C8: after the duration filter with min_duration = X minutes, the iterations
\* are exactly those the augmenter left whose duration_hours*60 is not below X, in
\* their order and unchanged (so nothing of a removed iteration is merged into
\* another); one with duration_hours*60 = X is kept, and X = 0 removes none.
C8_DurationFilterExact ==
    pc \in { "write", "done" } =>
        /\ iterations =
             SelectSeq(pre_filter, LAMBDA d : ~ShorterThan(d, args.min_duration))
        /\ args.min_duration = 0 => iterations = pre_filter

\* C8's case: the filter removed an iteration and kept one whose duration_hours*60
\* equals X
C8_Witness ==
    /\ pc = "write"
    /\ args.min_duration > 0
    /\ Len(iterations) < Len(pre_filter)
    /\ \E i \in 1..Len(iterations) :
         iterations[i].duration_hours * 60 = 100 * args.min_duration

\* C9: a failing container query is caught for its iteration only: the run does
\* not end there, the iteration keeps its client list, and the augmenter goes on
\* to the next iteration.
C9_AugmentFailureIsolated ==
    \A k \in 1..Len(aug_log) :
        ~aug_log[k].ok =>
            /\ pc \in { "augment", "write", "done" }
            /\ aug_i > k
            /\ (pc = "augment" => iterations[k].clients = pre_aug[k].clients)

\* C10: when the sample source answers with no data, detect_devnets returns the
\* empty list without detecting resets or clustering, nothing raises and nothing is
\* written; and build_devnet_iterations on an empty sample set returns the empty
\* list whatever clusters it is given.
C10_EmptyInputYieldsNothing ==
    /\ source = <<>> =>
         /\ pc \in { "main", "fatal", "fetch", "returned", "done" }
         /\ df = <<>>
         /\ iterations = <<>>
         /\ scan = NoScan
         /\ resets_df = <<>> /\ sorted_resets = <<>> /\ row_i = 0
         /\ clusters = <<>> /\ closed = <<>>
         /\ manifest = NoManifest
    /\ build_devnet_iterations(<<>>, clusters) = <<>>
    /\ build_devnet_iterations(<<>>, closed) = <<>>

\* C10's case: the run over an empty answer has ended
C10_Witness ==
    /\ source = <<>>
    /\ args.prometheus_url
    /\ pc = "done"

\* C11: without a connection parameter for the sample source (no URL argument and
\* no PROMETHEUS_URL in the environment) the run ends in the fatal error raised by
\* get_prometheus_client before any detection work: nothing is fetched, no reset is
\* detected, nothing is clustered, built or augmented, and no manifest is written;
\* and the fatal error is raised in no other case.
C11_MissingUrlFatalBeforeWork ==
    /\ ~args.prometheus_url =>
         /\ pc \in { "main", "fatal" }
         /\ df = <<>>
         /\ scan = NoScan /\ resets_df = <<>>
         /\ sorted_resets = <<>> /\ current_cluster = NoCluster
         /\ clusters = <<>> /\ closed = <<>>
         /\ iterations = <<>>
         /\ aug_i = 0 /\ aug_log = <<>>
         /\ manifest = NoManifest
    /\ pc = "fatal" => ~args.prometheus_url

\* C11's case: the run has ended in the fatal error, over a source that holds samples
C11_Witness ==
    /\ pc = "fatal"
    /\ ~args.prometheus_url
    /\ source # <<>>

IdsOf(its) == [ i \in 1..Len(its) |-> its[i].id ]

\* C12: every iteration's id is the date, hour and minute of its own start_time,
\* whether it is a leading, a cluster-begun or the fallback iteration; and the ids
\* detect_devnets returns are those of detect_devnets computed again from the same
\* query answer and parameters.
C12_IdFromStartTime ==
    /\ \A i \in 1..Len(iterations) :
         iterations[i].id = [ day  |-> iterations[i].start_time.day,
                              hour |-> iterations[i].start_time.hour,
                              min  |-> iterations[i].start_time.min ]
    /\ pc = "returned" =>
         IdsOf(iterations) = IdsOf(detect_devnets(source, args.reset_threshold,
                                                  args.tolerance, args.min_clients))

\* C12's case: a leading and a cluster-begun iteration returned, their ids apart
C12_Witness ==
    /\ pc = "returned"
    /\ Len(iterations) >= 2
    /\ iterations[1].notes = PreExistingNote
    /\ iterations[2].notes.n > 0
    /\ iterations[1].id # iterations[2].id
    /\ iterations[2].id.min # 0

\* C13: for a non-empty sample set, the first iteration detect_devnets returns
\* starts at the minimum sample timestamp and the last one ends at the maximum
\* sample timestamp.
C13_FirstStartLastEnd ==
    (pc = "returned" /\ df # <<>>) =>
        /\ iterations # <<>>
        /\ StartOf(iterations[1]) = Min(TimestampsOf(df))
        /\ EndOf(iterations[Len(iterations)]) = Max(TimestampsOf(df))

-----------------------------------------------------------------------------
(* detect_slot_resets_per_client called on its own *)

DetectClients == { 1, 2 }
DetectSlots == { 0, 100, 101 }
DetectThresholds == { 0, DefaultResetThreshold }

\* the slots of one client, sample k at minute k
SlotRuns == UNION { [ 1..n -> DetectSlots ] : n \in 0..MaxRows }

RowsOf(c, run) == [ k \in 1..Len(run) |-> [ client |-> c, timestamp |-> StepSeconds * k, slot |-> run[k] ] ]

Reverse(s) == [ i \in 1..Len(s) |-> s[Len(s) + 1 - i] ]

\* the frame in the order the fetch leaves it, interleaved by time, and reversed
DetectFrames ==
    { g \in UNION { { RowsOf(1, r1) \o RowsOf(2, r2),
                      SortByTimestamp(RowsOf(1, r1) \o RowsOf(2, r2)),
                      Reverse(RowsOf(1, r1) \o RowsOf(2, r2)) } :
                    r1 \in SlotRuns, r2 \in SlotRuns } : g # <<>> }

DirectArgs(reset_threshold, tolerance, min_clients) ==
    [ prometheus_url  |-> TRUE,
      reset_threshold |-> reset_threshold,
      tolerance       |-> tolerance,
      min_clients     |-> min_clients,
      min_duration    |-> DefaultMinDuration ]

InitDetect ==
    /\ pc = "detect"
    /\ \E t \in DetectThresholds :
         args = DirectArgs(t, DefaultTolerance, DefaultMinClients)
    /\ source = <<>>
    /\ df \in DetectFrames
    /\ resets_df = <<>>
    /\ Idle

NextDetect ==
    \/ DetectBegin
    \/ DetectRow

SpecDetect == InitDetect /\ [][NextDetect]_vars

\* the samples of the client of row i that are earlier than row i
EarlierRows(frame, i) ==
    { j \in 1..Len(frame) :
        frame[j].client = frame[i].client /\ frame[j].timestamp < frame[i].timestamp }

\* the sample just before row i among those of its client
Predecessor(frame, i) ==
    frame[CHOOSE j \in EarlierRows(frame, i) :
            \A k \in EarlierRows(frame, i) : frame[k].timestamp <= frame[j].timestamp]

Flagged(frame, i) ==
    \E k \in 1..Len(resets_df) :
        resets_df[k].client = frame[i].client /\ resets_df[k].timestamp = frame[i].timestamp

\* C2: once the resets are detected, a sample is flagged exactly when its slot is
\* below the slot of its client's previous sample minus reset_threshold: a first
\* sample is never flagged, a decrease of exactly reset_threshold is not, and every
\* reset event is the event of one sample.
C2_ResetIffBelowThreshold ==
    pc = "cluster" =>
        /\ \A i \in 1..Len(df) :
             IF EarlierRows(df, i) = {}
             THEN ~Flagged(df, i)
             ELSE Flagged(df, i) <=>
                    df[i].slot < Predecessor(df, i).slot - args.reset_threshold
        /\ \A k \in 1..Len(resets_df) :
             /\ \E i \in 1..Len(df) :
                  /\ df[i].client = resets_df[k].client
                  /\ df[i].timestamp = resets_df[k].timestamp
                  /\ df[i].slot = resets_df[k].new_slot
             /\ \A m \in 1..Len(resets_df) :
                  (resets_df[m].client = resets_df[k].client
                   /\ resets_df[m].timestamp = resets_df[k].timestamp) => m = k

\* C2's case: one client dropped by exactly reset_threshold and was not flagged,
\* another sample dropped by more and was
C2_Witness ==
    /\ pc = "cluster"
    /\ args.reset_threshold > 0
    /\ resets_df # <<>>
    /\ \E i \in 1..Len(df) :
         /\ EarlierRows(df, i) # {}
         /\ df[i].slot = Predecessor(df, i).slot - args.reset_threshold
         /\ ~Flagged(df, i)

-----------------------------------------------------------------------------
(* cluster_resets_across_clients called on its own *)

ClusterClients == { 1, 2, 3 }
ResetMinutes == 1..5
ClusterTolerances == { 1, 2 }
ClusterMinClients == { 2, 3 }

ResetAt(c, m) ==
    [ client         |-> c,
      timestamp      |-> StepSeconds * m,
      new_slot       |-> 0,
      prev_slot      |-> 200,
      prev_timestamp |-> StepSeconds * (m - 1) ]

RECURSIVE SetToSeq(_)
SetToSeq(S) ==
    IF S = {} THEN <<>>
    ELSE LET x == CHOOSE y \in S : TRUE IN << x >> \o SetToSeq(S \ { x })

\* reset frames as the detector emits them: client after client, each in time order
ResetFrames ==
    { SortByClientTimestamp(SetToSeq({ ResetAt(e[1], e[2]) : e \in E })) :
        E \in { F \in SUBSET (ClusterClients \X ResetMinutes) : Cardinality(F) <= MaxResets } }

InitCluster ==
    /\ pc = "cluster"
    /\ \E t \in ClusterTolerances, n \in ClusterMinClients :
         args = DirectArgs(DefaultResetThreshold, t, n)
    /\ source = <<>>
    /\ df = <<>>
    /\ resets_df \in ResetFrames
    /\ Idle

NextCluster ==
    \/ ClusterBegin
    \/ ClusterRow
    \/ ClusterEnd

SpecCluster == InitCluster /\ [][NextCluster]_vars

\* each timestamp of S is within tolerance of the one before it
Chained(S, tolerance_minutes) ==
    LET ts == SetToSortedSeq({ r.timestamp : r \in S })
    IN \A i \in 1..(Len(ts) - 1) : ts[i + 1] - ts[i] <= minutes(tolerance_minutes)

\* C3: when every reset is within tolerance of the reset before it in time, the
\* clusterer puts all the resets in one cluster, however far the first is from the
\* last.
C3_ChainedResetsOneCluster ==
    (pc = "clustered" /\ resets_df # <<>> /\ Chained(Range(resets_df), args.tolerance)) =>
        /\ Len(closed) = 1
        /\ Range(closed[1].resets) = Range(resets_df)
        /\ Len(closed[1].resets) = Len(resets_df)
        /\ closed[1].start = Min({ r.timestamp : r \in Range(resets_df) })
        /\ closed[1].end = Max({ r.timestamp : r \in Range(resets_df) })
        /\ Len(clusters) <= 1

\* C3's case: tolerance 2 minutes, resets at t0, t0 + 1, t0 + 2 and t0 + 3 minutes
\* in one cluster, whose first and last reset are 3 minutes apart
C3_Witness ==
    /\ pc = "clustered"
    /\ args.tolerance = 2
    /\ Len(closed) = 1
    /\ { r.timestamp : r \in Range(closed[1].resets) } =
           { StepSeconds * m : m \in 1..4 }
    /\ closed[1].end - closed[1].start > minutes(args.tolerance)

DistinctClients(cluster) == { cluster.resets[j].client : j \in 1..Len(cluster.resets) }

Accepted(cluster) == \E a \in 1..Len(clusters) : clusters[a] = cluster

\* C4: a closed cluster is among the returned boundaries exactly when its resets
\* come from at least min_clients distinct clients, whether an out-of-tolerance
\* reset or the end of the input closed it; and every boundary is a closed cluster.
C4_BoundaryIffMinClients ==
    /\ \A k \in 1..Len(closed) :
         Accepted(closed[k]) <=>
             Cardinality(DistinctClients(closed[k])) >= args.min_clients
    /\ \A a \in 1..Len(clusters) : \E k \in 1..Len(closed) : closed[k] = clusters[a]

\* C4's case: a cluster of min_clients - 1 clients holding more resets than that
\* was discarded, and one of exactly min_clients clients accepted; one of the two
\* was closed by an out-of-tolerance reset, the other by the end of the input
C4_Witness ==
    /\ pc = "clustered"
    /\ \E i, j \in 1..Len(closed) :
         /\ i # j
         /\ Cardinality(DistinctClients(closed[i])) = args.min_clients - 1
         /\ Len(closed[i].resets) >= args.min_clients
         /\ ~Accepted(closed[i])
         /\ Cardinality(DistinctClients(closed[j])) = args.min_clients
         /\ Accepted(closed[j])

-----------------------------------------------------------------------------
(* The worked example: three clients over two hours, restarting around minute 61 *)

ExampleClients == { 1, 2, 3 }

\* the slot at minute m of a client that restarts at minute r: from 0 up to 1000 at
\* minute 60, then from 0 up to 50 at minute 120
ExampleSlot(m, r) ==
    IF m < r
    THEN (IF m <= 60 THEN (1000 * m) \div 60 ELSE 1000)
    ELSE (50 * (m - r)) \div (120 - r)

ExampleSeries(c, r) ==
    [ job |-> c,
      values |-> [ k \in 1..121 |-> << StepSeconds * (k - 1), ExampleSlot(k - 1, r) >> ] ]

\* the restarts fall within 3 minutes of each other
ExampleSources ==
    { << ExampleSeries(3, r[3]), ExampleSeries(2, r[2]), ExampleSeries(1, r[1]) >> :
        r \in [ ExampleClients -> 61..63 ] }

InitExample ==
    /\ pc = "fetch"
    /\ args = DirectArgs(DefaultResetThreshold, DefaultTolerance, DefaultMinClients)
    /\ source \in ExampleSources
    /\ df = <<>>
    /\ resets_df = <<>>
    /\ Idle

NextExample ==
    \/ FetchSamples
    \/ DetectBegin
    \/ DetectRow
    \/ ClusterBegin
    \/ ClusterRow
    \/ ClusterEnd
    \/ BuildIterations

SpecExample == InitExample /\ [][NextExample]_vars

\* C6: in the worked example detect_devnets returns exactly two iterations: the
\* first from the data start to just before the cluster start with slots 0-1000,
\* the second from the cluster start to the data end with slots 0-50, both with
\* clients {A, B, C}.
C6_WorkedExample ==
    pc = "returned" =>
        LET cluster_start == Min({ r.timestamp : r \in Range(resets_df) })
        IN /\ Len(iterations) = 2
           /\ StartOf(iterations[1]) = Min(TimestampsOf(df))
           /\ EndOf(iterations[1]) = cluster_start - EndGapSeconds
           /\ iterations[1].start_slot = 0
           /\ iterations[1].end_slot = 1000
           /\ Range(iterations[1].clients) = ExampleClients
           /\ StartOf(iterations[2]) = cluster_start
           /\ EndOf(iterations[2]) = Max(TimestampsOf(df))
           /\ iterations[2].start_slot = 0
           /\ iterations[2].end_slot = 50
           /\ Range(iterations[2].clients) = ExampleClients

-----------------------------------------------------------------------------
(* build_devnet_iterations called on its own *)

\* sample instants: minutes 0, 6 and 13
BuildSampleTimes == { 0, 360, 780 }

\* cluster starts: exactly at the slack after minute 0, 42 seconds later (off the
\* sample grid), on the samples of minutes 6 and 13, and after the last sample
BoundaryTimes == { 300, 342, 360, 780, 840 }

BuildSlot(c, t) == ((c * t) % 500) + c

\* the frames as the fetch leaves them: by client, then by time
BuildFrames ==
    { SortByClientTimestamp(
          SetToSeq({ [ client |-> k[1], timestamp |-> k[2], slot |-> BuildSlot(k[1], k[2]) ] :
                     k \in K })) :
        K \in (SUBSET (ClientIds \X BuildSampleTimes)) \ { {} } }

\* a cluster of one reset of every client at instant t
BoundaryAt(t) ==
    [ start   |-> t,
      end     |-> t,
      clients |-> ClientIds,
      resets  |-> [ c \in 1..Cardinality(ClientIds) |->
                      [ client |-> c, timestamp |-> t, new_slot |-> 0,
                        prev_slot |-> 200, prev_timestamp |-> t - StepSeconds ] ] ]

\* the cluster lists: any order, the same start more than once
BoundaryLists ==
    UNION { { [ i \in 1..n |-> BoundaryAt(ts[i]) ] : ts \in [ 1..n -> BoundaryTimes ] } :
            n \in 1..MaxClusters }

InitBuild ==
    /\ pc = "clustered"
    /\ args = DirectArgs(DefaultResetThreshold, DefaultTolerance, DefaultMinClients)
    /\ source = <<>>
    /\ df \in BuildFrames
    /\ resets_df = <<>>
    /\ clusters \in BoundaryLists
    /\ scan = NoScan
    /\ sorted_resets = <<>>
    /\ row_i = 0
    /\ current_cluster = NoCluster
    /\ iterations = <<>>
    /\ aug_i = 0
    /\ manifest = NoManifest
    /\ closed = <<>>
    /\ aug_log = <<>>
    /\ pre_aug = <<>>
    /\ pre_filter = <<>>

NextBuild ==
    \/ BuildIterations

SpecBuild == InitBuild /\ [][NextBuild]_vars

\* the starts of the clusters, ascending
SortedStarts(cls) ==
    SortSeq([ i \in 1..Len(cls) |-> cls[i].start ], LAMBDA a, b : a < b)

\* the interval boundary number i (by start) begins
BoundaryInterval(frame, cls, i) ==
    LET starts == SortedStarts(cls)
    IN [ lo |-> starts[i],
         hi |-> IF i < Len(starts) THEN starts[i + 1] - EndGapSeconds
                ELSE Max(TimestampsOf(frame)) ]

BoundaryIntervals(frame, cls) ==
    [ i \in 1..Len(cls) |-> BoundaryInterval(frame, cls, i) ]

\* the interval before the first boundary, when that is beyond the slack
LeadingIntervals(frame, cls) ==
    LET data_min == Min(TimestampsOf(frame))
        first    == SortedStarts(cls)[1]
    IN IF first - data_min > minutes(SlackMinutes)
       THEN << [ lo |-> data_min, hi |-> first - EndGapSeconds ] >>
       ELSE <<>>

HoldsSample(frame, v) ==
    \E k \in 1..Len(frame) : v.lo <= frame[k].timestamp /\ frame[k].timestamp <= v.hi

IntervalOf(it) == [ lo |-> StartOf(it), hi |-> EndOf(it) ]
IntervalsOf(its) == [ i \in 1..Len(its) |-> IntervalOf(its[i]) ]

IsLeading(it) == it.notes = PreExistingNote
ClusterBegun(its) == SelectSeq(its, LAMBDA it : ~IsLeading(it))

\* C14: with the boundaries taken in order of start, the iteration boundary i
\* begins starts at boundary i's start and ends one second before boundary i+1's
\* start, or at the maximum sample timestamp when boundary i is the last; the
\* cluster-begun iterations are these intervals, in this order (those that hold a
\* sample).
C14_IterationEndsBeforeNextBoundary ==
    pc = "returned" =>
        IntervalsOf(ClusterBegun(iterations)) =
            SelectSeq(BoundaryIntervals(df, clusters), LAMBDA v : HoldsSample(df, v))

\* C14's case: clusters passed out of order, two iterations begun by them: one
\* ending a second before the next boundary, the last at the last sample
C14_Witness ==
    /\ pc = "returned"
    /\ Len(clusters) >= 2
    /\ clusters[1].start > clusters[2].start
    /\ Len(ClusterBegun(iterations)) >= 2
    /\ LET its == ClusterBegun(iterations)
       IN /\ EndOf(its[1]) + EndGapSeconds = StartOf(its[2])
          /\ EndOf(its[Len(its)]) = Max(TimestampsOf(df))

C16_NoEmptyClientList ==
    pc = "returned" =>
        /\ \A i \in 1..Len(iterations) : iterations[i].clients # <<>>
        /\ IntervalsOf(iterations) =
               SelectSeq(LeadingIntervals(df, clusters) \o BoundaryIntervals(df, clusters),
                         LAMBDA v : HoldsSample(df, v))
        /\ \A i \in 1..Len(iterations) :
               Range(iterations[i].clients) =
                   { df[k].client : k \in { j \in 1..Len(df) :
                         /\ StartOf(iterations[i]) <= df[j].timestamp
                         /\ df[j].timestamp <= EndOf(iterations[i]) } }

\* C16's case: of three boundaries the middle one's interval holds no sample and
\* is dropped, the iterations of the other two are emitted
C16_Witness ==
    /\ pc = "returned"
    /\ Len(clusters) = 3
    /\ ~HoldsSample(df, BoundaryInterval(df, clusters, 2))
    /\ IntervalsOf(ClusterBegun(iterations)) =
           << BoundaryInterval(df, clusters, 1), BoundaryInterval(df, clusters, 3) >>

-----------------------------------------------------------------------------
(* Order of the iterations and of the stages of main *)

SortedByStartTime(its) ==
    \A i, j \in 1..Len(its) : i < j => StartOf(its[i]) <= StartOf(its[j])

\* C17: the iterations are in ascending order of start_time from the moment they
\* are built, through augmentation and the duration filter, to the devnets list
\* of the manifest; a leading iteration is the first one; and
\* build_devnet_iterations returns the same ordered list when the clusters are
\* passed in the reverse order.
C17_SortedByStartTime ==
    /\ SortedByStartTime(iterations)
    /\ \A i \in 2..Len(iterations) : ~IsLeading(iterations[i])
    /\ manifest.written =>
         /\ SortedByStartTime(manifest.devnets)
         /\ manifest.devnets = iterations
    /\ (pc = "returned" /\ clusters # <<>>) =>
         /\ SortedByStartTime(build_devnet_iterations(df, Reverse(clusters)))
         /\ build_devnet_iterations(df, Reverse(clusters)) = iterations

\* C17's case: a manifest of two iterations written after the augmenter added a
\* client and the filter removed one of three iterations begun by two boundaries
C17_Witness ==
    /\ manifest.written
    /\ Len(clusters) >= 2
    /\ Len(manifest.devnets) >= 2
    /\ Len(manifest.devnets) < Len(pre_filter)
    /\ IsLeading(manifest.devnets[1])
    /\ \E i \in 1..Len(pre_aug) : pre_aug[i].clients # pre_filter[i].clients

\* what each stage leaves when it has finished
FetchFinished == df = fetch_head_slot_history(source)
DetectFinished ==
    /\ resets_df = detect_slot_resets_per_client(df, args.reset_threshold)
    /\ scan.c = Len(scan.clients) /\ scan.r > Len(scan.client_df)
ClusterFinished ==
    clusters = cluster_resets_across_clients(resets_df, args.tolerance, args.min_clients)
BuildFinished(its) ==
    its = detect_devnets(source, args.reset_threshold, args.tolerance, args.min_clients)
AugmentFinished ==
    /\ Len(aug_log) = Len(pre_aug)
    /\ \A k \in 1..Len(aug_log) : aug_log[k].ok
FilterFinished ==
    /\ Len(pre_filter) = Len(pre_aug)
    /\ iterations = DurationFilter(pre_filter, args.min_duration)

\* what each stage finds before it has started
DetectNotStarted == scan = NoScan /\ resets_df = <<>>
ClusterNotStarted ==
    sorted_resets = <<>> /\ current_cluster = NoCluster /\ clusters = <<>> /\ closed = <<>>
BuildNotStarted == iterations = <<>>
AugmentNotStarted == aug_i = 0 /\ aug_log = <<>> /\ pre_aug = <<>>
FilterNotStarted == pre_filter = <<>>
WriteNotStarted == manifest = NoManifest

\* C19: the stages run in the order fetch, reset detection, clustering, iteration
\* building, augmentation, duration filter, manifest write: while one stage runs,
\* every stage before it has finished and none after it has started; in
\* particular the filter runs only when the augmenter has visited every iteration,
\* those the filter removes included.
C19_StagesInOrder ==
    /\ pc \in { "main", "fatal", "fetch" } =>
         /\ df = <<>>
         /\ DetectNotStarted /\ ClusterNotStarted /\ BuildNotStarted
         /\ AugmentNotStarted /\ FilterNotStarted /\ WriteNotStarted
    /\ pc \in { "detect", "detect_loop" } =>
         /\ FetchFinished
         /\ ClusterNotStarted /\ BuildNotStarted
         /\ AugmentNotStarted /\ FilterNotStarted /\ WriteNotStarted
    /\ pc \in { "cluster", "cluster_loop" } =>
         /\ FetchFinished /\ DetectFinished
         /\ BuildNotStarted
         /\ AugmentNotStarted /\ FilterNotStarted /\ WriteNotStarted
    /\ pc = "clustered" =>
         /\ FetchFinished /\ DetectFinished /\ ClusterFinished
         /\ BuildNotStarted
         /\ AugmentNotStarted /\ FilterNotStarted /\ WriteNotStarted
    /\ pc = "returned" =>
         /\ FetchFinished
         /\ df # <<>> => (DetectFinished /\ ClusterFinished)
         /\ BuildFinished(iterations)
         /\ AugmentNotStarted /\ FilterNotStarted /\ WriteNotStarted
    /\ pc \in { "augment", "crashed" } =>
         /\ FetchFinished /\ DetectFinished /\ ClusterFinished
         /\ BuildFinished(pre_aug)
         /\ FilterNotStarted /\ WriteNotStarted
    /\ pc = "write" =>
         /\ FetchFinished /\ DetectFinished /\ ClusterFinished
         /\ BuildFinished(pre_aug)
         /\ AugmentFinished /\ FilterFinished
         /\ WriteNotStarted
    /\ (pc = "done" /\ pre_aug # <<>>) =>
         /\ FetchFinished /\ DetectFinished /\ ClusterFinished
         /\ BuildFinished(pre_aug)
         /\ AugmentFinished /\ FilterFinished
         /\ manifest.written <=> iterations # <<>>

\* C19's case: the run has written the manifest after the filter removed an
\* iteration the augmenter had added a client to
C19_Witness ==
    /\ pc = "done"
    /\ manifest.written
    /\ \E i \in 1..Len(pre_filter) :
         /\ ShorterThan(pre_filter[i], args.min_duration)
         /\ pre_filter[i].clients # pre_aug[i].clients
         /\ aug_log[i].ok

\* the rows of the frame whose timestamp lies in [start_time, end_time] of it
SamplesIn(frame, it) ==
    { k \in 1..Len(frame) :
        StartOf(it) <= frame[k].timestamp /\ frame[k].timestamp <= EndOf(it) }

\* C20: for every iteration detect_devnets returns, start_slot is the minimum and
\* end_slot the maximum slot of the samples whose timestamp lies in
\* [start_time, end_time], and clients lists the clients of exactly those samples,
\* each once.
C20_StatsOfSamplesInInterval ==
    pc = "returned" =>
        \A i \in 1..Len(iterations) :
            LET inside == SamplesIn(df, iterations[i])
            IN /\ inside # {}
               /\ iterations[i].start_slot = Min({ df[k].slot : k \in inside })
               /\ iterations[i].end_slot = Max({ df[k].slot : k \in inside })
               /\ Range(iterations[i].clients) = { df[k].client : k \in inside }
               /\ NoDuplicates(iterations[i].clients)

\* C20's case: two iterations with different clients, one of them over several
\* slots, and a client of the frame with no sample in the other
C20_Witness ==
    /\ pc = "returned"
    /\ Len(iterations) >= 2
    /\ \E i, j \in 1..Len(iterations) :
         /\ Range(iterations[i].clients) # Range(iterations[j].clients)
         /\ iterations[i].start_slot < iterations[i].end_slot
         /\ Range(iterations[j].clients) # ClientsIn(df)
         /\ SamplesIn(df, iterations[j]) # 1..Len(df)

-----------------------------------------------------------------------------
(* Client lists after augmentation *)

StrictlyAscending(s) == \A i \in 1..(Len(s) - 1) : s[i] < s[i + 1]

\* C21: every iteration the augmenter has visited has a client list in ascending
\* order without duplicates, whether the container query added clients or not;
\* so have all iterations when it returns, and those that pass the filter.
C21_ClientsSortedAfterAugment ==
    /\ pc \in { "augment", "crashed" } =>
         \A i \in 1..(aug_i - 1) : StrictlyAscending(iterations[i].clients)
    /\ pc \in { "write", "done" } =>
         /\ \A i \in 1..Len(pre_filter) : StrictlyAscending(pre_filter[i].clients)
         /\ \A i \in 1..Len(iterations) : StrictlyAscending(iterations[i].clients)

\* C21's case: the augmenter has returned; the container query named nothing for
\* an iteration of two clients and a new client for another iteration
C21_Witness ==
    /\ pc \in { "write", "done" }
    /\ \E i, j \in 1..Len(pre_filter) :
         /\ aug_log[i].clients = {}
         /\ Len(pre_filter[i].clients) >= 2
         /\ pre_filter[i].clients = pre_aug[i].clients
         /\ Len(pre_filter[j].clients) > Len(pre_aug[j].clients)

-----------------------------------------------------------------------------
(* The cursor of detect_slot_resets_per_client *)

\* C22: while a client's rows are scanned the cursor is the sample just before
\* the row in turn (none before the first), whether that sample was a reset or
\* not; every reset event carries the slot and timestamp of its client's sample
\* just before it, against which it was compared.
C22_CursorAlwaysAdvances ==
    /\ pc = "detect_loop" =>
         scan.cursor =
             IF scan.r = 1 THEN NoCursor
             ELSE [ has       |-> TRUE,
                    slot      |-> scan.client_df[scan.r - 1].slot,
                    timestamp |-> scan.client_df[scan.r - 1].timestamp ]
    /\ pc = "cluster" =>
         \A k \in 1..Len(resets_df) :
             \E i \in 1..Len(df) :
                 /\ df[i].client = resets_df[k].client
                 /\ df[i].timestamp = resets_df[k].timestamp
                 /\ EarlierRows(df, i) # {}
                 /\ resets_df[k].prev_slot = Predecessor(df, i).slot
                 /\ resets_df[k].prev_timestamp = Predecessor(df, i).timestamp
                 /\ resets_df[k].new_slot < resets_df[k].prev_slot - args.reset_threshold

\* C22's case: three samples of one client in a row; the second is a reset, the
\* third is below the first by more than the threshold but not below the second,
\* and is not a reset
C22_Witness ==
    /\ pc = "cluster"
    /\ \E i, j, k \in 1..Len(df) :
         /\ df[i].client = df[j].client /\ df[j].client = df[k].client
         /\ df[j].timestamp = df[i].timestamp + StepSeconds
         /\ df[k].timestamp = df[j].timestamp + StepSeconds
         /\ Flagged(df, j)
         /\ df[k].slot < df[i].slot - args.reset_threshold
         /\ ~Flagged(df, k)

-----------------------------------------------------------------------------
(* The clusters of cluster_resets_across_clients *)

TimestampsOfResets(cluster) == { cluster.resets[j].timestamp : j \in 1..Len(cluster.resets) }

WellFormedCluster(cluster) ==
    /\ cluster.resets # <<>>
    /\ cluster.start = Min(TimestampsOfResets(cluster))
    /\ cluster.end = Max(TimestampsOfResets(cluster))
    /\ cluster.clients = DistinctClients(cluster)
    /\ \A j \in 1..(Len(cluster.resets) - 1) :
           cluster.resets[j].timestamp <= cluster.resets[j + 1].timestamp
    /\ cluster.start <= cluster.end
    /\ cluster.end = cluster.resets[Len(cluster.resets)].timestamp

\* C23: the open cluster at every step of the loop, every closed cluster and
\* every accepted one has start = the earliest and end = the latest timestamp of
\* its resets, clients = the clients of its resets, its resets in ascending
\* timestamp order and start <= end; the end is the timestamp of the reset added
\* last, so it never decreases while the cluster is open.
C23_ClusterFieldsMatchMembers ==
    /\ pc = "cluster_loop" => WellFormedCluster(current_cluster)
    /\ \A k \in 1..Len(closed) : WellFormedCluster(closed[k])
    /\ \A a \in 1..Len(clusters) : WellFormedCluster(clusters[a])

\* C23's case: a closed cluster of three resets of two clients over two minutes
\* or more, and the loop has ended
C23_Witness ==
    /\ pc = "clustered"
    /\ \E k \in 1..Len(closed) :
         /\ Len(closed[k].resets) >= 3
         /\ Cardinality(closed[k].clients) = 2
         /\ closed[k].end - closed[k].start >= minutes(2)

\* the clusters built so far, the open one last
ClustersBuilt ==
    IF pc = "cluster_loop" THEN Append(closed, current_cluster) ELSE closed

\* C24: inside every cluster each reset after the first is within tolerance of
\* the reset before it (it was folded: its distance to the running end was
\* <= tolerance, exactly tolerance included), and every cluster begun by a reset
\* starts more than tolerance after the end of the cluster before it (the reset
\* was not folded); the distance to the start of the cluster plays no part.
C24_FoldIffWithinToleranceOfEnd ==
    /\ \A k \in 1..Len(ClustersBuilt) :
         \A j \in 1..(Len(ClustersBuilt[k].resets) - 1) :
             ClustersBuilt[k].resets[j + 1].timestamp - ClustersBuilt[k].resets[j].timestamp
                 <= minutes(args.tolerance)
    /\ \A k \in 1..(Len(ClustersBuilt) - 1) :
         ClustersBuilt[k + 1].start - ClustersBuilt[k].end > minutes(args.tolerance)

\* C24's case: a reset exactly tolerance after the one before it was folded,
\* further than tolerance from the start of its cluster, and a later reset was not
C24_Witness ==
    /\ pc = "clustered"
    /\ Len(closed) >= 2
    /\ \E j \in 2..(Len(closed[1].resets) - 1) :
         /\ closed[1].resets[j + 1].timestamp - closed[1].resets[j].timestamp
                = minutes(args.tolerance)
         /\ closed[1].resets[j + 1].timestamp - closed[1].start > minutes(args.tolerance)

RECURSIVE Flatten(_)
Flatten(cls) ==
    IF cls = <<>> THEN <<>>
    ELSE Flatten(SubSeq(cls, 1, Len(cls) - 1)) \o cls[Len(cls)].resets

\* C27: when the clusterer returns, the closed clusters (accepted or discarded),
\* one after the other, hold the resets in timestamp order, each reset once; each
\* closed cluster starts more than tolerance after the end of the one before it;
\* the accepted clusters are closed clusters, in that order, and any two of them
\* are more than tolerance apart; no reset of a discarded cluster is in an
\* accepted one.
C27_ClustersPartitionResets ==
    pc = "clustered" =>
        /\ Flatten(closed) = sorted_resets
        /\ Len(sorted_resets) = Len(resets_df)
        /\ Range(sorted_resets) = Range(resets_df)
        /\ \A k \in 1..(Len(closed) - 1) :
               closed[k + 1].start - closed[k].end > minutes(args.tolerance)
        /\ clusters = SelectSeq(closed, LAMBDA c :
                                   Cardinality(DistinctClients(c)) >= args.min_clients)
        /\ \A a, b \in 1..Len(clusters) :
               a < b => clusters[b].start - clusters[a].end > minutes(args.tolerance)
        /\ \A k \in 1..Len(closed), a \in 1..Len(clusters) :
               closed[k] # clusters[a] =>
                   Range(closed[k].resets) \cap Range(clusters[a].resets) = {}

\* C27's case: a discarded cluster, then an accepted one, then a discarded one
C27_Witness ==
    /\ pc = "clustered"
    /\ Len(closed) = 3
    /\ ~Accepted(closed[1]) /\ Accepted(closed[2]) /\ ~Accepted(closed[3])

-----------------------------------------------------------------------------
(* Independence of the clients in detect_slot_resets_per_client *)

RowsOfClient(frame, c) == SelectSeq(frame, LAMBDA r : r.client = c)

\* C25: the reset events of a client are those the detector finds in the samples
\* of that client alone, whatever the samples of the other client are and however
\* the rows of the two are interleaved in the frame.
C25_ResetsPerClientIndependent ==
    pc = "cluster" =>
        \A c \in DetectClients :
            RowsOfClient(resets_df, c) =
                detect_slot_resets_per_client(SortByTimestamp(RowsOfClient(df, c)),
                                              args.reset_threshold)

\* C25's case: rows of the two clients alternate in the frame, both clients have
\* a reset, and a row lies below the row of the other client just before it by
\* more than the threshold without being a reset
C25_Witness ==
    /\ pc = "cluster"
    /\ \A c \in DetectClients : RowsOfClient(resets_df, c) # <<>>
    /\ \E i \in 1..(Len(df) - 1) :
         /\ df[i].client # df[i + 1].client
         /\ df[i + 1].slot < df[i].slot - args.reset_threshold
         /\ ~Flagged(df, i + 1)
    /\ \E i \in 2..(Len(df) - 1) :
         df[i - 1].client # df[i].client /\ df[i].client # df[i + 1].client

-----------------------------------------------------------------------------
(* Ids, intervals and the number of iterations *)

\* a query answer whose two series are sampled 30 seconds apart: the clients
\* restart at 10:00 and at 10:30 minutes
SameMinuteAnswer ==
    << [ job |-> 2, values |-> << << 30, 200 >>, << 630, 0 >> >> ],
       [ job |-> 1, values |-> << << 0, 200 >>, << 600, 0 >> >> ] >>

DistinctIds(its) == \A i, j \in 1..Len(its) : its[i].id = its[j].id => i = j

\* C26: with tolerance_minutes >= 1 the ids of the iterations of a run are
\* pairwise distinct, the start times of any two being more than a minute apart;
\* with tolerance_minutes = 0 two boundaries that start in the same minute get
\* the same id, which tolerance_minutes = 1 prevents by merging them.
C26_IdsPairwiseDistinct ==
    /\ args.tolerance >= 1 =>
         /\ DistinctIds(iterations)
         /\ \A i, j \in 1..Len(iterations) :
                i < j => StartOf(iterations[j]) - StartOf(iterations[i]) > StepSeconds
    /\ ~DistinctIds(detect_devnets(SameMinuteAnswer, DefaultResetThreshold, 0, 1))
    /\ DistinctIds(detect_devnets(SameMinuteAnswer, DefaultResetThreshold, 1, 1))

\* C26's case: tolerance 1 minute, three iterations returned
C26_Witness ==
    /\ pc = "returned"
    /\ args.tolerance = 1
    /\ Len(iterations) = 3
    /\ iterations[1].id # iterations[2].id
    /\ iterations[2].id # iterations[3].id

\* C28: the intervals of the iterations build_devnet_iterations returns are in
\* strict order and disjoint: start_time <= end_time for each, and each ends
\* before the next starts; so no sample lies in the interval of two iterations.
C28_IntervalsDisjointOrdered ==
    pc = "returned" =>
        /\ \A i \in 1..Len(iterations) : StartOf(iterations[i]) <= EndOf(iterations[i])
        /\ \A i \in 1..(Len(iterations) - 1) :
               EndOf(iterations[i]) < StartOf(iterations[i + 1])
        /\ \A k \in 1..Len(df) :
               Cardinality({ i \in 1..Len(iterations) : k \in SamplesIn(df, iterations[i]) }) <= 1

\* C28's case: three iterations, a sample at the very instant the third starts,
\* one second after the second ends
C28_Witness ==
    /\ pc = "returned"
    /\ Len(iterations) = 3
    /\ EndOf(iterations[2]) + EndGapSeconds = StartOf(iterations[3])
    /\ \E k \in 1..Len(df) : df[k].timestamp = StartOf(iterations[3])

\* the closed clusters whose resets come from min_clients distinct clients or more
AcceptedClusters ==
    SelectSeq(closed, LAMBDA c : Cardinality(DistinctClients(c)) >= args.min_clients)

\* C29: for a non-empty sample set detect_devnets returns at least one iteration
\* and at most one more than there are clusters of min_clients distinct clients
\* or more, so clusters of fewer clients split nothing; every iteration has
\* start_slot <= end_slot and a non-empty client list.
C29_IterationCountBounded ==
    (pc = "returned" /\ df # <<>>) =>
        /\ Len(iterations) >= 1
        /\ Len(iterations) <= Len(AcceptedClusters) + 1
        /\ \A i \in 1..Len(iterations) :
               /\ iterations[i].start_slot <= iterations[i].end_slot
               /\ iterations[i].clients # <<>>

\* C29's case: two clusters of one client each, the first more than 5 minutes
\* after the first sample, were discarded, and one iteration is returned
C29_Witness ==
    /\ pc = "returned"
    /\ args.min_clients > 1
    /\ Len(closed) = 2
    /\ closed[1].start - Min(TimestampsOf(df)) > minutes(SlackMinutes)
    /\ AcceptedClusters = <<>>
    /\ Len(iterations) = 1

-----------------------------------------------------------------------------
(* The manifest *)

Survivors == SelectSeq(pre_filter, LAMBDA d : ~ShorterThan(d, args.min_duration))

\* C30: the manifest is written only at the end of a run in which an iteration
\* passed the filter: not when detect_devnets returned none, not when the filter
\* removed all, not when the run ended in an error; its devnets are the augmented
\* iterations that passed the filter and its detection_params the reset_threshold,
\* tolerance, min_clients and min_duration of the run.
C30_ManifestOnlyWithSurvivors ==
    /\ manifest.written =>
         /\ pc = "done"
         /\ Len(pre_filter) = Len(pre_aug) /\ Len(aug_log) = Len(pre_aug)
         /\ Survivors # <<>>
         /\ manifest.devnets = Survivors
         /\ manifest.detection_params =
                [ reset_threshold      |-> args.reset_threshold,
                  tolerance_minutes    |-> args.tolerance,
                  min_clients          |-> args.min_clients,
                  min_duration_minutes |-> args.min_duration ]
    /\ pc = "done" => (manifest.written <=> Survivors # <<>>)

\* C30's case: the run has ended with a manifest of fewer iterations than were
\* augmented, under a min_duration of 6 minutes
C30_Witness ==
    /\ pc = "done"
    /\ manifest.written
    /\ manifest.detection_params.min_duration_minutes = 6
    /\ manifest.detection_params.tolerance_minutes = DefaultTolerance
    /\ Len(manifest.devnets) < Len(pre_aug)

====
